---- MODULE Spec2Model ----
(***************************************************************************)
(* A model of the quantitative core of FundingScope: the liquidation      *)
(* model (liquidationUtils.ts), the funding accrual engine with its       *)
(* liquidation-period cache (calculateFundingImpact), the day-by-day      *)
(* projection of ProfitLossChart, the spot comparison                     *)
(* (spotCompareUtils.ts), the rule list of getRecommendations and the     *)
(* funding-rate request fetchFundingRate.                                  *)
(*                                                                         *)
(* Numbers.  A TypeScript `number` is modelled as a decimal fixed-point   *)
(* value: the integer v stands for v / Scale.  Sums and differences are   *)
(* exact; products and quotients are cut to 1/Scale.  Assignments of      *)
(* literals (0, 100, initialMargin ...) are exact, as they are in IEEE    *)
(* double arithmetic.                                                      *)
(***************************************************************************)
EXTENDS Integers, Sequences, FiniteSets, TLC

VARIABLES
    liquidationCache,   \* binanceApi.ts:110, key -> period index
    op,                 \* the invocation that ran last: its name and arguments
    ret                 \* what that invocation returned

vars == <<liquidationCache, op, ret>>

-----------------------------------------------------------------------------
(* Fixed-point arithmetic *)

Scale == 10^4

Fx(n) == n * Scale

Abs(x) == IF x < 0 THEN -x ELSE x

Max(a, b) == IF a >= b THEN a ELSE b

Min(a, b) == IF a <= b THEN a ELSE b

\* product of two non-negative values, computed in parts so that no
\* intermediate result leaves the 32-bit range
MulNN(a, b) ==
    LET a1 == a \div Scale
        a0 == a % Scale
        b1 == b \div Scale
        b0 == b % Scale
    IN  a1 * b1 * Scale + a1 * b0 + a0 * b1 + (a0 * b0) \div Scale

\* 1 when a and b have the same sign, else -1
SignOf(a, b) == IF (a < 0) = (b < 0) THEN 1 ELSE -1

FMul(a, b) == SignOf(a, b) * MulNN(Abs(a), Abs(b))

RECURSIVE DivDigits(_, _, _)
DivDigits(r, b, n) ==
    IF n = 1 THEN 0
    ELSE LET t == r * 10
         IN  (t \div b) * (n \div 10) + DivDigits(t % b, b, n \div 10)

\* quotient of two non-negative values, b > 0, by long division
DivNN(a, b) == (a \div b) * Scale + DivDigits(a % b, b, Scale)

FDiv(a, b) == SignOf(a, b) * DivNN(Abs(a), Abs(b))

-----------------------------------------------------------------------------
(* liquidationUtils.ts *)

\* the 1x special case dropped
maintenanceMarginOf_always(leverage, initialMarginRequired) ==
    FMul(initialMarginRequired, Scale \div 2)

\* line 46: no maintenance margin at 1x, else half the initial margin
maintenanceMarginOf(leverage, initialMarginRequired) ==
    IF leverage = Fx(1) THEN 0 ELSE FMul(initialMarginRequired, Scale \div 2)

\* the distance subtracted for both directions
calculateLiquidationDetails_longOnly(currentPrice, leverage, positionSize, isLong) ==
    LET liquidationDistancePercent == FDiv(Fx(100), leverage)
        liquidationDistance ==
            FMul(currentPrice, FDiv(liquidationDistancePercent, Fx(100)))
        initialMarginRequired == FDiv(positionSize, leverage)
    IN  [liquidationPrice |-> currentPrice - liquidationDistance,
         liquidationDistance |-> liquidationDistance,
         liquidationDistancePercent |-> liquidationDistancePercent,
         initialMarginRequired |-> initialMarginRequired,
         maintenanceMarginRequired |-> maintenanceMarginOf(leverage, initialMarginRequired)]

\* lines 17-61
calculateLiquidationDetails(currentPrice, leverage, positionSize, isLong) ==
    LET liquidationDistancePercent == FDiv(Fx(100), leverage)
        liquidationDistance ==
            FMul(currentPrice, FDiv(liquidationDistancePercent, Fx(100)))
        liquidationPrice ==
            IF isLong THEN currentPrice - liquidationDistance
                      ELSE currentPrice + liquidationDistance
        initialMarginRequired == FDiv(positionSize, leverage)
        maintenanceMarginRequired == maintenanceMarginOf(leverage, initialMarginRequired)
    IN  [liquidationPrice |-> liquidationPrice,
         liquidationDistance |-> liquidationDistance,
         liquidationDistancePercent |-> liquidationDistancePercent,
         initialMarginRequired |-> initialMarginRequired,
         maintenanceMarginRequired |-> maintenanceMarginRequired]

\* the comparison exclusive at the threshold
wouldBeLiquidated_strict(currentPrice, entryPrice, leverage, isLong) ==
    LET liquidationPrice ==
            calculateLiquidationDetails(entryPrice, leverage,
                                        FMul(entryPrice, leverage), isLong).liquidationPrice
    IN  IF isLong THEN currentPrice < liquidationPrice
                  ELSE currentPrice > liquidationPrice

\* lines 71-84
wouldBeLiquidated(currentPrice, entryPrice, leverage, isLong) ==
    LET liquidationPrice ==
            calculateLiquidationDetails(entryPrice, leverage,
                                        FMul(entryPrice, leverage), isLong).liquidationPrice
    IN  IF isLong THEN currentPrice <= liquidationPrice
                  ELSE currentPrice >= liquidationPrice

-----------------------------------------------------------------------------
(* fundingRateUtils: calculateFundingImpact and its cache *)

\* the value of an absent optional (`undefined`)
Undefined == -1

\* JavaScript truthiness of a `number | undefined`: undefined and 0 are falsy
Truthy(x) == x # Undefined /\ x # 0

EmptyCache == [k \in {} |-> 0]

\* the template string of line 136; a number prints to a string that reads
\* back as the same number, so the key is the tuple of its six parts
cacheKey(a) ==
    <<a.positionSize, a.fundingRate, a.leverage, a.initialMargin,
      a.currentPrice, a.isLong>>

cacheGet(cache, key) == IF key \in DOMAIN cache THEN cache[key] ELSE Undefined

\* the period written to every entry
cacheSet_overwritesAll(cache, key, v) == [k \in DOMAIN cache \cup {key} |-> v]

cacheSet(cache, key, v) ==
    [k \in DOMAIN cache \cup {key} |-> IF k = key THEN v ELSE cache[k]]

\* line 146
periodsToCalculate(liquidationPeriod, periods) ==
    IF Truthy(liquidationPeriod) THEN Min(periods, liquidationPeriod) ELSE periods

\* a strict comparison in place of <=
marginExhausted_strict(effectiveMargin, maintenanceMarginRequired) ==
    effectiveMargin < maintenanceMarginRequired

\* line 153: the liquidation test of one period
marginExhausted(effectiveMargin, maintenanceMarginRequired) ==
    effectiveMargin <= maintenanceMarginRequired

\* a cached liquidation period acted on whatever the number of periods
pastLiquidation_known(liquidationPeriod, periods) == Truthy(liquidationPeriod)

\* a cached liquidation period that is never acted on
pastLiquidation_never(liquidationPeriod, periods) == FALSE

\* >= in place of >
pastLiquidation_inclusive(liquidationPeriod, periods) ==
    Truthy(liquidationPeriod) /\ periods >= liquidationPeriod

\* line 169: the call is past a known liquidation point
pastLiquidation(liquidationPeriod, periods) ==
    Truthy(liquidationPeriod) /\ periods > liquidationPeriod

\* lines 149-165: one pass of the loop body at period i; after the `break`
\* (st.isLiquidated) nothing more is done
fundingStep(a, mm, i, st) ==
    IF st.isLiquidated THEN st
    ELSE LET fundingPerPeriod ==
                 FMul(st.currentPositionSize, FDiv(a.fundingRate, Fx(100)))
             effectiveMargin == a.initialMargin - st.totalFundingFees
         IN  IF marginExhausted(effectiveMargin, mm)
             THEN [st EXCEPT !.effectiveMargin = effectiveMargin,
                             !.isLiquidated = TRUE,
                             !.liquidationPeriod = i,
                             !.cached = TRUE]
             ELSE [st EXCEPT !.effectiveMargin = effectiveMargin,
                             !.totalFundingFees = @ + fundingPerPeriod,
                             !.currentPositionSize =
                                 FMul(a.positionSize,
                                      FDiv(effectiveMargin, a.initialMargin))]

\* line 148: the passes for i = lo .. hi-1 in ascending order (the range is
\* halved so that the evaluation nests only logarithmically deep)
RECURSIVE fundingLoop(_, _, _, _, _)
fundingLoop(a, mm, lo, hi, st) ==
    IF hi <= lo \/ st.isLiquidated THEN st
    ELSE IF hi = lo + 1 THEN fundingStep(a, mm, lo, st)
    ELSE fundingLoop(a, mm, (lo + hi) \div 2, hi,
                     fundingLoop(a, mm, lo, (lo + hi) \div 2, st))

\* the lower clamp dropped
Clamp0to100_noFloor(x) == Min(Fx(100), x)

\* Math.max(0, Math.min(100, x)), lines 191-192
Clamp0to100(x) == Max(0, Min(Fx(100), x))

\* the share of margin consumed taken as the score at every leverage
liquidationRiskOf_marginShare(isLiquidated, leverage, initialMargin, effectiveMargin, marginBuffer) ==
    IF isLiquidated THEN Fx(100)
    ELSE Clamp0to100(FMul(FDiv(initialMargin - effectiveMargin, initialMargin), Fx(100)))

\* lines 190-192
liquidationRiskOf(isLiquidated, leverage, initialMargin, effectiveMargin, marginBuffer) ==
    IF isLiquidated THEN Fx(100)
    ELSE IF leverage = Fx(1)
         THEN Clamp0to100(FMul(FDiv(initialMargin - effectiveMargin, initialMargin), Fx(100)))
         ELSE Clamp0to100(FMul(Fx(1) - FDiv(marginBuffer, initialMargin), Fx(100)))

\* lines 113-217.  a: the seven arguments; cache: liquidationCache at the call.
\* The value is the returned FundingRateImpact and the cache after the call.
calculateFundingImpact(a, cache) ==
    LET liquidationDetails ==
            calculateLiquidationDetails(a.currentPrice, a.leverage, a.positionSize, a.isLong)
        mm == liquidationDetails.maintenanceMarginRequired
        key == cacheKey(a)
        known == cacheGet(cache, key)
        loop == fundingLoop(a, mm, 0, periodsToCalculate(known, a.periods),
                    [totalFundingFees |-> 0,
                     currentPositionSize |-> a.positionSize,
                     effectiveMargin |-> a.initialMargin,
                     isLiquidated |-> FALSE,
                     liquidationPeriod |-> known,
                     cached |-> FALSE])
        past == pastLiquidation(loop.liquidationPeriod, a.periods)
        isLiquidated == loop.isLiquidated \/ past
        effectiveMargin == IF past THEN 0 ELSE loop.effectiveMargin
        totalFundingFees == IF past THEN a.initialMargin ELSE loop.totalFundingFees
        fundingPerPeriod == FMul(a.positionSize, FDiv(a.fundingRate, Fx(100)))
        marginBuffer == effectiveMargin - mm
        liquidationRisk ==
            liquidationRiskOf(isLiquidated, a.leverage, a.initialMargin,
                              effectiveMargin, marginBuffer)
    IN  [ret |->
            [fundingFees |-> totalFundingFees,
             effectiveMargin |-> Max(0, effectiveMargin),
             liquidationRisk |-> liquidationRisk,
             isLiquidated |-> isLiquidated,
             liquidationPeriod |->
                 IF isLiquidated THEN loop.liquidationPeriod ELSE Undefined,
             liquidationDetails |-> liquidationDetails,
             calculations |->
                 [fundingPerPeriod |-> fundingPerPeriod,
                  totalFundingFees |-> totalFundingFees,
                  maintenanceMargin |-> mm,
                  marginBuffer |-> marginBuffer]],
         cache |->
            IF loop.cached THEN cacheSet(cache, key, loop.liquidationPeriod)
                           ELSE cache]

-----------------------------------------------------------------------------
(* Inputs of the direct calls of the funding engine *)

MaxPeriods == 6

InitialMargin == Fx(100)

Leverages == {Fx(1), Fx(2), Fx(5), Fx(10), Fx(25), Fx(50)}

\* percent per 8h period
FundingRates == {Fx(-1), 0, Fx(1)}

\* a rate that uses up a 1x margin within the period bound
ExhaustingRate == Fx(50)

FundingCall(positionSize, fundingRate, periods, leverage) ==
    [positionSize |-> positionSize, fundingRate |-> fundingRate, periods |-> periods,
     leverage |-> leverage, initialMargin |-> InitialMargin,
     currentPrice |-> Fx(100), isLong |-> TRUE]

\* the calls the callers make (notional = margin * leverage, rate in [-1, 1]),
\* a 1x position under a rate that exhausts its margin, and a call whose
\* notional is twice margin * leverage
FundingArgs ==
    {FundingCall(FMul(InitialMargin, l), r, n, l) :
        l \in Leverages, r \in FundingRates, n \in 0..MaxPeriods}
    \cup {FundingCall(InitialMargin, ExhaustingRate, n, Fx(1)) : n \in 0..MaxPeriods}
    \cup {FundingCall(2 * FMul(InitialMargin, Fx(2)), Fx(1), n, Fx(2)) : n \in 0..MaxPeriods}

NoReturn == [fundingFees |-> 0]

Init ==
    /\ liquidationCache = EmptyCache
    /\ op = [name |-> "init", args |-> <<>>, known |-> Undefined]
    /\ ret = NoReturn

CallFundingImpact ==
    \E a \in FundingArgs :
        LET r == calculateFundingImpact(a, liquidationCache)
        IN  /\ liquidationCache' = r.cache
            /\ op' = [name |-> "calculateFundingImpact", args |-> a,
                      known |-> cacheGet(liquidationCache, cacheKey(a))]
            /\ ret' = r.ret

\* a fresh module instance (page load): the cache starts empty again
ClearCache ==
    /\ liquidationCache # EmptyCache
    /\ liquidationCache' = EmptyCache
    /\ UNCHANGED <<op, ret>>

Next == CallFundingImpact \/ ClearCache

Spec == Init /\ [][Next]_vars

-----------------------------------------------------------------------------
(* Direct calls of the liquidation model *)

\* leverages whose reciprocal is exact at the model's resolution
LiquidationLeverages ==
    {Scale \div 2, Fx(1), Fx(2), Fx(4), Fx(5), Fx(10), Fx(25), Fx(50)}

EntryPrices == {Fx(50), Fx(100), Fx(200)}

\* market prices, among them the liquidation prices of the entry prices
MarketPrices ==
    {Fx(25), Fx(40), Fx(50), Fx(75), Fx(80), Fx(90), Fx(100), Fx(110), Fx(120),
     Fx(125), Fx(150), Fx(200), Fx(300), Fx(400)}

PositionSizes == {Fx(100), Fx(1000)}

CallLiquidationDetails ==
    \E currentPrice \in MarketPrices, leverage \in LiquidationLeverages,
       positionSize \in PositionSizes, isLong \in BOOLEAN :
        /\ op' = [name |-> "calculateLiquidationDetails",
                  args |-> [currentPrice |-> currentPrice, leverage |-> leverage,
                            positionSize |-> positionSize, isLong |-> isLong],
                  known |-> Undefined]
        /\ ret' = calculateLiquidationDetails(currentPrice, leverage, positionSize, isLong)
        /\ UNCHANGED liquidationCache

CallWouldBeLiquidated ==
    \E currentPrice \in MarketPrices, entryPrice \in EntryPrices,
       leverage \in LiquidationLeverages, isLong \in BOOLEAN :
        /\ op' = [name |-> "wouldBeLiquidated",
                  args |-> [currentPrice |-> currentPrice, entryPrice |-> entryPrice,
                            leverage |-> leverage, isLong |-> isLong],
                  known |-> Undefined]
        /\ ret' = wouldBeLiquidated(currentPrice, entryPrice, leverage, isLong)
        /\ UNCHANGED liquidationCache

NextLiquidation == CallLiquidationDetails \/ CallWouldBeLiquidated

SpecLiquidation == Init /\ [][NextLiquidation]_vars

-----------------------------------------------------------------------------
(* Math library functions at the model's resolution *)

\* the decimal literal m / 10^e
Dec(m, e) == (m * Scale) \div (10^e)

Pi == 31416

\* the series y - y^3/3! + y^5/5! - y^7/7! + y^9/9! in nested form, y2 = y * y
SinSeries(y, y2) ==
    FMul(y, Fx(1) - FMul(y2, Fx(1) - FMul(y2, Fx(1) - FMul(y2, Fx(1) - y2 \div 72)
                                                     \div 42) \div 20) \div 6)

\* sin(y + n * Pi) = (-1)^n * sin(y)
SinReduced(y, n) == (IF n % 2 = 0 THEN 1 ELSE -1) * SinSeries(y, FMul(y, y))

\* Math.sin for x >= 0: the argument is reduced to [-Pi/2, Pi/2] and the
\* series is summed
Sin(x) == SinReduced(x - ((x + Pi \div 2) \div Pi) * Pi, (x + Pi \div 2) \div Pi)

\* Number(x.toFixed(2)): the nearest multiple of 0.01, ties away from zero
ToFixed2(x) ==
    LET unit == Scale \div 100
        r == ((Abs(x) + unit \div 2) \div unit) * unit
    IN  IF x < 0 THEN -r ELSE r

\* Number(x.toFixed(8)): eight decimals are finer than the model's resolution
ToFixed8(x) == x

-----------------------------------------------------------------------------
(* JavaScript division where the divisor may be 0 *)

NaN == "NaN"

Infinity == "Infinity"

NegInfinity == "-Infinity"

\* floor(r * m / b) and its remainder for 0 <= r < b, by doubling: no
\* intermediate value exceeds 3 * b, so divisors up to 2^31 / 3 are in range
RECURSIVE MulDivRem(_, _, _)
MulDivRem(r, m, b) ==
    IF m = 0 THEN [q |-> 0, r |-> 0]
    ELSE LET h == MulDivRem(r, m \div 2, b)
             t == 2 * h.r + (m % 2) * r
         IN  [q |-> 2 * h.q + t \div b, r |-> t % b]

\* the quotient of DivNN for divisors beyond the range of DivDigits
WideDivNN(a, b) == (a \div b) * Scale + MulDivRem(a % b, Scale, b).q

\* a / b: x / 0 is Infinity or -Infinity by the sign of x, 0 / 0 is NaN
JsDiv(a, b) ==
    IF b # 0 THEN SignOf(a, b) * WideDivNN(Abs(a), Abs(b))
    ELSE IF a > 0 THEN Infinity
    ELSE IF a < 0 THEN NegInfinity
    ELSE NaN

\* a / b > c for b >= 0: Infinity exceeds c, -Infinity and NaN do not
QuotGt(a, b, c) == IF b # 0 THEN FDiv(a, b) > c ELSE a > 0

\* a / b < c for b >= 0: -Infinity is below c, Infinity and NaN are not
QuotLt(a, b, c) == IF b # 0 THEN FDiv(a, b) < c ELSE a < 0

-----------------------------------------------------------------------------
(* Math.pow for the exponents 0.5 and 1.5 *)

\* the largest s in lo..hi with s * s <= n, given lo * lo <= n
RECURSIVE IsqrtIn(_, _, _)
IsqrtIn(n, lo, hi) ==
    IF lo = hi THEN lo
    ELSE LET mid == (lo + hi + 1) \div 2
         IN  IF mid * mid <= n THEN IsqrtIn(n, mid, hi) ELSE IsqrtIn(n, lo, mid - 1)

\* Math.pow(day, 0.5) for a whole day: the square root, cut to 1/Scale;
\* it is 0 for day 0.  Days up to 21 are in range.
PowHalf(day) == IsqrtIn(day * Scale * Scale, 0, 46340)

\* Math.pow(day, 1.5) = day * day^0.5; it is 0 for day 0
PowThreeHalves(day) == FMul(Fx(day), PowHalf(day))

-----------------------------------------------------------------------------
(* ProfitLossChart.tsx: the scenario table *)

Scenarios == {"Linear", "Volatile Growth", "Sideways", "Market Cycle"}

\* lines 107-113: what multiplies baseReturn * day in the phase of the cycle
marketCycleFactor(phase) ==
    IF phase < Dec(3, 1) THEN Dec(5, 1)
    ELSE IF phase < Dec(6, 1) THEN Fx(1) + FMul(phase, phase)
    ELSE IF phase < Dec(8, 1)
         THEN Dec(15, 1) - FMul(phase - Dec(6, 1), phase - Dec(6, 1))
         ELSE Fx(1) - FMul(phase - Dec(8, 1), phase - Dec(8, 1))

\* lines 107-113
marketCyclePrice(day, baseReturn) ==
    FMul(FMul(baseReturn, Fx(day)), marketCycleFactor(FDiv(Fx(day % 100), Fx(100))))

\* line 52 (and spotCompareUtils.ts line 11, the same text):
\* baseReturn * Math.pow(day, 1.5) / Math.pow(day, 0.5), evaluated left to
\* right; at day 0 it is 0 / 0
exponentialPumpPrice(day, baseReturn) ==
    JsDiv(FMul(baseReturn, PowThreeHalves(day)), PowHalf(day))

\* scenarios[..].priceModifier, lines 46, 52, 59-60, 67-70, 107-113
priceModifier(scenario, day, baseReturn) ==
    CASE scenario = "Linear" -> FMul(baseReturn, Fx(day))
      [] scenario = "Exponential Pump" -> exponentialPumpPrice(day, baseReturn)
      [] scenario = "Volatile Growth" ->
            FMul(FMul(baseReturn, Fx(day)),
                 Fx(1) + FMul(Dec(3, 1), Sin(FDiv(Fx(day), Fx(10)))))
      [] scenario = "Sideways" ->
            LET oscillation == FMul(Sin(FDiv(Fx(day), Fx(15))), Dec(1, 1))
            IN  FMul(FMul(baseReturn, Fx(day)), Dec(1, 1)) + oscillation
      [] scenario = "Market Cycle" -> marketCyclePrice(day, baseReturn)

\* a funding rate that is charged on the first day only
fundingModifier_fadesOut(scenario, day, baseFunding, priceChange) ==
    IF day <= 1 THEN baseFunding ELSE 0

\* scenarios[..].fundingModifier, lines 47, 61-62, 71-72, 114-117
fundingModifier(scenario, day, baseFunding, priceChange) ==
    CASE scenario = "Linear" -> baseFunding
      [] scenario = "Volatile Growth" ->
            FMul(baseFunding, Fx(1) + FMul(Dec(5, 1), Sin(FDiv(Fx(day), Fx(5)))))
      [] scenario = "Sideways" ->
            FMul(baseFunding, Fx(1) + FMul(Dec(1, 1), Sin(FDiv(Fx(day), Fx(10)))))
      [] scenario = "Market Cycle" ->
            LET phase == FDiv(Fx(day % 100), Fx(100))
            IN  FMul(baseFunding,
                     Fx(1) + FMul(Abs(priceChange),
                                  IF phase < Dec(6, 1) THEN Fx(2) ELSE Dec(5, 1)))

-----------------------------------------------------------------------------
(* ProfitLossChart.tsx: the projected series (the useMemo callback) *)

fundingPeriodsPerDay == 3

\* lines 188-192
marginWarningLevel(liquidationRisk) ==
    IF liquidationRisk > Fx(80) THEN "danger"
    ELSE IF liquidationRisk > Fx(60) THEN "warning"
    ELSE "safe"

\* the liquidation state with one field left at a live value
liquidatedPoint_keepsRaw(day, initialInvestment, priceAtDay) ==
    [day |-> day, rawPnL |-> 0, fundingFees |-> initialInvestment,
     fundingRate |-> 0, totalPnL |-> -initialInvestment, price |-> priceAtDay,
     pnlPercent |-> Fx(-100), liquidationRisk |-> Fx(100), effectiveMargin |-> 0,
     isLiquidated |-> TRUE, marginWarning |-> "undefined"]

\* lines 166-177: the liquidation state; it carries no marginWarning
liquidatedPoint(day, initialInvestment, priceAtDay) ==
    [day |-> day, rawPnL |-> -initialInvestment, fundingFees |-> initialInvestment,
     fundingRate |-> 0, totalPnL |-> -initialInvestment, price |-> priceAtDay,
     pnlPercent |-> Fx(-100), liquidationRisk |-> Fx(100), effectiveMargin |-> 0,
     isLiquidated |-> TRUE, marginWarning |-> "undefined"]

\* lines 129-139: priceAtDay
priceAtDayOf(p, scenario, day) ==
    FMul(p.currentPrice,
         Fx(1) + priceModifier(scenario, day,
                     FDiv(FDiv(p.targetPrice - p.currentPrice, p.currentPrice),
                          Fx(p.timeHorizon))))

\* lines 142-158: the funding rate of the day, rawPnL and the arguments of
\* the day's funding call
dayInputsFrom(p, scenario, day, priceAtDay, priceChangePerc, positionSize) ==
    LET modifiedFundingRate == fundingModifier(scenario, day, p.fundingRate, priceChangePerc)
    IN  [priceAtDay |-> priceAtDay,
         priceChangePerc |-> priceChangePerc,
         modifiedFundingRate |-> modifiedFundingRate,
         positionSize |-> positionSize,
         rawPnL |-> FMul(positionSize, priceChangePerc),
         call |-> [positionSize |-> positionSize,
                   fundingRate |-> modifiedFundingRate,
                   periods |-> day * fundingPeriodsPerDay,
                   leverage |-> p.leverage,
                   initialMargin |-> p.initialInvestment,
                   currentPrice |-> priceAtDay,
                   isLong |-> TRUE]]

\* lines 140, 147: priceChangePerc and positionSize
dayInputsAt(p, scenario, day, priceAtDay) ==
    dayInputsFrom(p, scenario, day, priceAtDay,
                  FDiv(priceAtDay - p.currentPrice, p.currentPrice),
                  FMul(p.initialInvestment, p.leverage))

\* lines 129-158: the quantities of one day and the arguments of its funding call
dayInputs(p, scenario, day) ==
    dayInputsAt(p, scenario, day, priceAtDayOf(p, scenario, day))

\* the fees subtracted by their amount, whatever their sign
totalPnLOf_absFees(p, in, fundingImpact) ==
    FMul(FMul(in.positionSize, FDiv(fundingImpact.effectiveMargin, p.initialInvestment)),
         FDiv(in.priceAtDay - p.currentPrice, p.currentPrice))
        - Abs(fundingImpact.fundingFees)

\* lines 182-184
totalPnLOf(p, in, fundingImpact) ==
    FMul(FMul(in.positionSize, FDiv(fundingImpact.effectiveMargin, p.initialInvestment)),
         FDiv(in.priceAtDay - p.currentPrice, p.currentPrice))
        - fundingImpact.fundingFees

\* lines 185-206: the point of a day on which the position is open
openPoint(p, day, in, fundingImpact, totalPnL) ==
    [day |-> day,
     rawPnL |-> ToFixed2(in.rawPnL),
     fundingFees |-> ToFixed2(fundingImpact.fundingFees),
     fundingRate |-> ToFixed8(in.modifiedFundingRate),
     totalPnL |-> ToFixed2(totalPnL),
     price |-> ToFixed8(in.priceAtDay),
     pnlPercent |-> ToFixed2(FMul(FDiv(totalPnL, p.initialInvestment), Fx(100))),
     liquidationRisk |-> ToFixed2(fundingImpact.liquidationRisk),
     effectiveMargin |-> ToFixed2(fundingImpact.effectiveMargin),
     isLiquidated |-> FALSE,
     marginWarning |-> marginWarningLevel(fundingImpact.liquidationRisk)]

\* lines 160-206: the point, given the day's quantities and funding result
pointOf(p, day, in, fundingImpact) ==
    IF /\ fundingImpact.isLiquidated
       /\ fundingImpact.liquidationPeriod # Undefined
       /\ day >= fundingImpact.liquidationPeriod \div fundingPeriodsPerDay
    THEN liquidatedPoint(day, p.initialInvestment, in.priceAtDay)
    ELSE openPoint(p, day, in, fundingImpact, totalPnLOf(p, in, fundingImpact))

\* lines 149-206, r being what the funding call of lines 149-157 gave
chartPointFrom(p, day, in, r) ==
    [cache |-> r.cache, point |-> pointOf(p, day, in, r.ret)]

\* lines 149-157: the funding call of the day
chartPointOf(p, day, in, cache) ==
    chartPointFrom(p, day, in, calculateFundingImpact(in.call, cache))

\* lines 136-206: the callback of Array.from for one day.  The value is the
\* point of the day and the cache after the day's funding call.
chartPoint(p, scenario, day, cache) ==
    chartPointOf(p, day, dayInputs(p, scenario, day), cache)

\* the array with the day's point at its end, and the cache after the day
appendPoint(acc, r) ==
    [cache |-> r.cache, points |-> Append(acc.points, r.point)]

\* Array.from({length: timeHorizon + 1}, ...), line 136: the days
\* 0 .. timeHorizon in ascending order, the day being the index of the next
\* element; each day's call sees the cache the earlier days left
RECURSIVE mapDays(_, _, _)
mapDays(p, scenario, acc) ==
    IF Len(acc.points) > p.timeHorizon THEN acc
    ELSE mapDays(p, scenario,
                 appendPoint(acc, chartPoint(p, scenario, Len(acc.points), acc.cache)))

\* the filter without its second test
displayed_dropsLast(d, timeHorizon) ==
    d.day % Max(1, timeHorizon \div 10) = 0

\* line 207: every floor(timeHorizon / 10)-th day and the final day
displayed(d, timeHorizon) ==
    d.day % Max(1, timeHorizon \div 10) = 0 \/ d.day = timeHorizon

\* line 207: the displayed part of the array m.points
filtered(p, m) ==
    [cache |-> m.cache,
     points |-> m.points,
     data |-> SelectSeq(m.points, LAMBDA d : displayed(d, p.timeHorizon))]

\* lines 125-208
projection(p, scenario, cache) ==
    filtered(p, mapDays(p, scenario, [cache |-> cache, points |-> <<>>]))

-----------------------------------------------------------------------------
(* Inputs of the chart *)

MaxHorizon == 2

LongHorizon == 17

SampledHorizon == 21

ChartParam(leverage, targetPrice, timeHorizon, fundingRate) ==
    [initialInvestment |-> InitialMargin, leverage |-> leverage,
     targetPrice |-> targetPrice, timeHorizon |-> timeHorizon,
     fundingRate |-> fundingRate, currentPrice |-> Fx(100)]

\* short horizons over a grid of positions
ChartParams ==
    {ChartParam(l, t, h, r) :
        l \in {Fx(1), Fx(2), Fx(5)}, t \in {Fx(100), Fx(110)},
        h \in 1..MaxHorizon, r \in FundingRates}

\* positions at 50x that funding liquidates within the first day
LiquidatingParams ==
    {ChartParam(Fx(50), t, MaxHorizon, Fx(1)) : t \in {Fx(100), Fx(110)}}

\* a longer horizon at 2x with a funding rate of 0.75 % per period
LongParams == ChartParam(Fx(2), Fx(110), LongHorizon, Dec(75, 2))

\* a horizon of 20 days or more, of which the filter of line 207 keeps a part
SampledParams == ChartParam(Fx(2), Fx(110), SampledHorizon, 0)

\* what the chart is rendered with: the props and the selected scenario
ChartRuns ==
    {[params |-> p, scenario |-> "Linear"] : p \in ChartParams \cup LiquidatingParams}
    \cup {[params |-> ChartParam(Fx(2), Fx(110), MaxHorizon, Fx(1)), scenario |-> sc] :
              sc \in Scenarios}
    \cup {[params |-> LongParams, scenario |-> "Volatile Growth"]}
    \cup {[params |-> SampledParams, scenario |-> "Linear"]}

RenderChart ==
    \E run \in ChartRuns :
        \E r \in {projection(run.params, run.scenario, liquidationCache)} :
            /\ liquidationCache' = r.cache
            /\ op' = [name |-> "ProfitLossChart", args |-> run, known |-> Undefined]
            /\ ret' = [points |-> r.points, data |-> r.data]

NextChart == RenderChart \/ ClearCache

SpecChart == Init /\ [][NextChart]_vars

-----------------------------------------------------------------------------
(* The chart of a position with a margin of 1000 *)

\* the default margin of the input form
DefaultInvestment == Fx(1000)

\* a position over 30 days, the rate being 0.01 % per period and the price
\* going from 100 to 110
ConcreteParam(leverage) ==
    [initialInvestment |-> DefaultInvestment, leverage |-> leverage,
     targetPrice |-> Fx(110), timeHorizon |-> 30, fundingRate |-> Dec(1, 2),
     currentPrice |-> Fx(100)]

\* the position at 100x
ConcreteParams == ConcreteParam(Fx(100))

ConcreteRun == [params |-> ConcreteParams, scenario |-> "Linear"]

\* the same margin over short horizons
ShortParams ==
    {[initialInvestment |-> DefaultInvestment, leverage |-> l, targetPrice |-> t,
      timeHorizon |-> h, fundingRate |-> r, currentPrice |-> Fx(100)] :
        l \in {Fx(1), Fx(2), Fx(5), Fx(10), Fx(50), Fx(100)}, t \in {Fx(100), Fx(110)},
        h \in 1..MaxHorizon, r \in {-Dec(1, 2), 0, Dec(1, 2)}}

PositionRuns ==
    {ConcreteRun, [params |-> ConcreteParam(Fx(10)), scenario |-> "Linear"]}
    \cup {[params |-> p, scenario |-> "Linear"] : p \in ShortParams}

\* the cache holds a liquidation period of the position of p (at any price
\* and rate)
knowsPosition(cache, p) ==
    \E key \in DOMAIN cache :
        /\ key[1] = FMul(p.initialInvestment, p.leverage)
        /\ key[3] = p.leverage
        /\ key[4] = p.initialInvestment

\* one evaluation of the useMemo callback; `known` records whether the cache
\* held a liquidation period of the position when it began
RenderPosition ==
    \E run \in PositionRuns :
        \E r \in {projection(run.params, run.scenario, liquidationCache)} :
            /\ liquidationCache' = r.cache
            /\ op' = [name |-> "ProfitLossChart", args |-> run,
                      known |-> knowsPosition(liquidationCache, run.params)]
            /\ ret' = [points |-> r.points, data |-> r.data]

NextPosition == RenderPosition \/ ClearCache

SpecPosition == Init /\ [][NextPosition]_vars

-----------------------------------------------------------------------------
(* spotCompareUtils.ts *)

\* types/scenarios: the TradingScenario names
TradingScenarios ==
    {"Linear", "Exponential Pump", "Volatile Growth", "Sideways", "Parabolic",
     "Accumulation", "Cascading Pump", "Market Cycle"}

\* the priceModifier column of the second copy of the scenario table,
\* spotCompareUtils.ts lines 4-66
spotPriceModifier(scenario, day, baseReturn) ==
    CASE scenario = "Linear" -> FMul(baseReturn, Fx(day))
      [] scenario = "Exponential Pump" -> exponentialPumpPrice(day, baseReturn)
      [] scenario = "Volatile Growth" ->
            FMul(FMul(baseReturn, Fx(day)),
                 Fx(1) + FMul(Dec(3, 1), Sin(FDiv(Fx(day), Fx(10)))))
      [] scenario = "Sideways" ->
            LET oscillation == FMul(Sin(FDiv(Fx(day), Fx(15))), Dec(1, 1))
            IN  FMul(FMul(baseReturn, Fx(day)), Dec(1, 1)) + oscillation
      [] scenario = "Parabolic" ->
            FMul(baseReturn, FMul(FDiv(Fx(day), Fx(100)), FDiv(Fx(day), Fx(100))))
      [] scenario = "Accumulation" ->
            LET breakout == IF day > 50
                            THEN FMul(FDiv(Fx(day - 50), Fx(30)), FDiv(Fx(day - 50), Fx(30)))
                            ELSE 0
            IN  FMul(FMul(baseReturn, Fx(day)), Dec(2, 1) + breakout)
      [] scenario = "Cascading Pump" ->
            LET wave1 == FMul(Sin(FDiv(Fx(day), Fx(20))), Min(Fx(1), FDiv(Fx(day), Fx(30))))
                wave2 == FMul(FMul(Sin(FDiv(Fx(day), Fx(40))),
                                   Min(Fx(1), FDiv(Fx(day), Fx(60)))), Fx(2))
                wave3 == FMul(FMul(Sin(FDiv(Fx(day), Fx(80))),
                                   Min(Fx(1), FDiv(Fx(day), Fx(90)))), Fx(4))
            IN  FMul(FMul(baseReturn, Fx(day)), Fx(1) + wave1 + wave2 + wave3)
      [] scenario = "Market Cycle" -> marketCyclePrice(day, baseReturn)

\* lines 95-98: the local stand-in of the liquidation model
spotLiquidationDetails(currentPrice, leverage, positionSize, isLong) ==
    [liquidationDistancePercent |-> 0, maintenanceMarginRequired |-> 0]

\* lines 175-196
getScenarioRiskMultiplier(scenario) ==
    CASE scenario = "Linear" -> Fx(1)
      [] scenario = "Exponential Pump" -> Dec(18, 1)
      [] scenario = "Volatile Growth" -> Dec(15, 1)
      [] scenario = "Sideways" -> Dec(8, 1)
      [] scenario = "Parabolic" -> Fx(2)
      [] scenario = "Accumulation" -> Dec(12, 1)
      [] scenario = "Cascading Pump" -> Dec(16, 1)
      [] scenario = "Market Cycle" -> Dec(14, 1)
      [] OTHER -> Fx(1)

\* the gate with `||` in the place of `&&`
isFundingSignificantOf_either(fundingToPositionRatio, fundingFees, leveragedPnL) ==
    \/ fundingToPositionRatio > Fx(2)
    \/ QuotGt(fundingFees, Abs(leveragedPnL), Dec(5, 1))

\* lines 139, 146: fundingToPositionRatio > 2 && fundingToPnLRatio > 0.5
isFundingSignificantOf(fundingToPositionRatio, fundingFees, leveragedPnL) ==
    /\ fundingToPositionRatio > Fx(2)
    /\ QuotGt(fundingFees, Abs(leveragedPnL), Dec(5, 1))

\* the decision without the margin test
isLeverageWorthItOf_anyMargin(leveragedReturn, spotReturn, hasAdequateMargin, isFundingSignificant) ==
    /\ leveragedReturn > FMul(spotReturn, Dec(15, 1))
    /\ (~isFundingSignificant \/ leveragedReturn > FMul(spotReturn, Fx(3)))

\* lines 150-155
isLeverageWorthItOf(leveragedReturn, spotReturn, hasAdequateMargin, isFundingSignificant) ==
    /\ leveragedReturn > FMul(spotReturn, Dec(15, 1))
    /\ hasAdequateMargin
    /\ (~isFundingSignificant \/ leveragedReturn > FMul(spotReturn, Fx(3)))

\* lines 100-172, finalDayPriceMove, spotPnL and scenarioAdjustedRisk being
\* the values of lines 106, 110 and 116
spotComparisonFrom(sp, finalDayPriceMove, spotPnL, scenarioAdjustedRisk) ==
    LET spotInvestment == sp.initialInvestment
        leveragedPnL == FMul(spotPnL, sp.leverage) - sp.fundingFees
        spotRisk == scenarioAdjustedRisk
        leverageRisk == FMul(spotRisk, sp.leverage)
        details == spotLiquidationDetails(sp.currentPrice, sp.leverage,
                                          FMul(sp.initialInvestment, sp.leverage), TRUE)
        effectiveMargin == sp.initialInvestment - sp.fundingFees
        marginBuffer == effectiveMargin - details.maintenanceMarginRequired
        marginBufferPercent == FMul(FDiv(marginBuffer, sp.initialInvestment), Fx(100))
        fundingToPositionRatio ==
            FMul(FDiv(sp.fundingFees, sp.initialInvestment), Fx(100))
        leveragedReturn == FMul(FDiv(leveragedPnL, sp.initialInvestment), Fx(100))
        spotReturn == FMul(FDiv(spotPnL, spotInvestment), Fx(100))
        isFundingSignificant ==
            isFundingSignificantOf(fundingToPositionRatio, sp.fundingFees, leveragedPnL)
        hasAdequateMargin == marginBufferPercent > Fx(20)
        isLeverageWorthIt ==
            isLeverageWorthItOf(leveragedReturn, spotReturn, hasAdequateMargin,
                                isFundingSignificant)
    IN  [spotPnL |-> spotPnL,
         leveragedPnL |-> leveragedPnL,
         spotReturn |-> spotReturn,
         leveragedReturn |-> leveragedReturn,
         spotSharpe |-> JsDiv(spotPnL, FMul(spotRisk, spotInvestment)),
         leverageSharpe |-> JsDiv(leveragedPnL, FMul(leverageRisk, sp.initialInvestment)),
         isFundingSignificant |-> isFundingSignificant,
         isLeverageWorthIt |-> isLeverageWorthIt,
         leverageMultiplier |-> JsDiv(leveragedPnL, spotPnL),
         fundingDragPercent |-> fundingToPositionRatio,
         scenarioAdjustedRisk |-> scenarioAdjustedRisk,
         liquidationRisk |-> details.liquidationDistancePercent,
         marginBuffer |-> marginBufferPercent]

\* lines 107-116: spotPnL and scenarioAdjustedRisk
spotComparisonOf(sp, finalDayPriceMove) ==
    spotComparisonFrom(sp, finalDayPriceMove,
        FMul(sp.initialInvestment,
             FDiv(FMul(sp.currentPrice, Fx(1) + finalDayPriceMove) - sp.currentPrice,
                  sp.currentPrice)),
        FMul(FMul(Abs(finalDayPriceMove), Fx(100)),
             getScenarioRiskMultiplier(sp.selectedScenario)))

\* lines 100-172.  sp: the SpotComparisonParams (isLong is never passed, so
\* `params.isLong ?? true` is true)
calculateSpotComparison(sp) ==
    spotComparisonOf(sp,
        spotPriceModifier(sp.selectedScenario, sp.timeHorizon,
            FDiv(FDiv(sp.targetPrice - sp.currentPrice, sp.currentPrice),
                 Fx(sp.timeHorizon))))

\* the SpotComparisonParams of direct calls: positions of 100 at a price of
\* 100, with targets below, at and above the price
SpotHorizon == 8

SpotFees == {Fx(-3), 0, Fx(3), Fx(35), Fx(85)}

\* the scenarios of the direct calls.  Parabolic moves the price by
\* baseReturn * (day / 100)^2, which at these horizons is below 1 / Scale.
SpotScenarios == TradingScenarios \ {"Parabolic"}

SpotParams ==
    {[initialInvestment |-> InitialMargin, currentPrice |-> Fx(100),
      targetPrice |-> t, leverage |-> l, fundingFees |-> f, timeHorizon |-> h,
      selectedScenario |-> sc] :
        t \in {Fx(90), Fx(100), Fx(110), Fx(120)}, l \in {Fx(1), Fx(2), Fx(10)},
        f \in SpotFees, h \in {SpotHorizon}, sc \in SpotScenarios}

CompareSpot ==
    \E sp \in SpotParams :
        /\ op' = [name |-> "calculateSpotComparison", args |-> sp, known |-> Undefined]
        /\ ret' = calculateSpotComparison(sp)
        /\ UNCHANGED liquidationCache

NextSpot == CompareSpot

SpecSpot == Init /\ [][NextSpot]_vars

\* one element of a recommendation list: its type, title and severity, and
\* `rule`, the position of the push or unshift that made it in the order the
\* two functions evaluate their rules.  The description and action texts are
\* not modelled.
Rec(rule, type, title, severity) ==
    [rule |-> rule, type |-> type, title |-> title, severity |-> severity]

\* recommendations.push(item) under a condition
PushIf(cond, recommendations, item) ==
    IF cond THEN Append(recommendations, item) ELSE recommendations

\* recommendations.unshift(item) under a condition
UnshiftIf(cond, recommendations, item) ==
    IF cond THEN <<item>> \o recommendations ELSE recommendations

\* lines 198-282
getSpotComparisonRecommendations(comparison, sp) ==
    LET isHighRisk == comparison.liquidationRisk > Fx(75) \/ comparison.marginBuffer < Fx(20)
        r1 == <<Rec(22, IF isHighRisk THEN "critical" ELSE "position",
                    "Projected Leverage vs Spot Returns",
                    IF isHighRisk THEN "high"
                    ELSE IF comparison.marginBuffer < Fx(40) THEN "medium" ELSE "low")>>
    IN  CASE sp.selectedScenario = "Sideways" ->
                PushIf(comparison.fundingDragPercent > Dec(15, 1), r1,
                       Rec(23, "risk", "High Projected Funding in Range", "medium"))
          [] sp.selectedScenario \in {"Exponential Pump", "Parabolic"} ->
                PushIf(comparison.leveragedReturn > FMul(comparison.spotReturn, Dec(15, 1)), r1,
                       IF comparison.marginBuffer < Fx(40)
                       THEN Rec(24, "risk", "High Risk Trend Strategy", "high")
                       ELSE Rec(24, "opportunity", "Potential Trend Strategy", "medium"))
          [] sp.selectedScenario = "Volatile Growth" ->
                PushIf(comparison.leveragedReturn > comparison.spotReturn, r1,
                       IF comparison.marginBuffer < Fx(35)
                       THEN Rec(25, "risk", "High Risk Strategy Profile", "high")
                       ELSE Rec(25, "opportunity", "Balanced Strategy Profile", "medium"))
          [] OTHER -> r1

-----------------------------------------------------------------------------
(* RecommendationsContainer.tsx: getRecommendations *)

\* lines 144-153
fundingMultiplierOf(scenario) ==
    CASE scenario = "Exponential Pump" -> Fx(2)
      [] scenario = "Volatile Growth" -> Dec(15, 1)
      [] scenario = "Sideways" -> Fx(1)
      [] scenario = "Parabolic" -> Dec(25, 1)
      [] scenario = "Accumulation" -> Dec(8, 1)
      [] scenario = "Cascading Pump" -> Dec(18, 1)
      [] scenario = "Market Cycle" -> Dec(13, 1)
      [] OTHER -> Fx(1)

\* lines 240-249
scenarioCharacteristics(scenario) ==
    CASE scenario = "Exponential Pump" -> [pnlMult |-> Dec(15, 1), fundingRisk |-> "high", peakDay |-> 45]
      [] scenario = "Volatile Growth" -> [pnlMult |-> Dec(12, 1), fundingRisk |-> "medium", peakDay |-> 30]
      [] scenario = "Sideways" -> [pnlMult |-> Dec(5, 1), fundingRisk |-> "low", peakDay |-> 0]
      [] scenario = "Parabolic" -> [pnlMult |-> Fx(2), fundingRisk |-> "high", peakDay |-> 60]
      [] scenario = "Accumulation" -> [pnlMult |-> Dec(8, 1), fundingRisk |-> "low", peakDay |-> 50]
      [] scenario = "Cascading Pump" -> [pnlMult |-> Dec(13, 1), fundingRisk |-> "medium", peakDay |-> 45]
      [] scenario = "Market Cycle" -> [pnlMult |-> Fx(1), fundingRisk |-> "medium", peakDay |-> 40]
      [] scenario = "Linear" -> [pnlMult |-> Fx(1), fundingRisk |-> "low", peakDay |-> 0]
      [] OTHER -> [pnlMult |-> Fx(1), fundingRisk |-> "medium", peakDay |-> 0]

\* lines 406-415
scenarioVolatilityOf(scenario) ==
    CASE scenario = "Exponential Pump" -> Fx(2)
      [] scenario = "Volatile Growth" -> Dec(25, 1)
      [] scenario = "Sideways" -> Fx(1)
      [] scenario = "Parabolic" -> Fx(3)
      [] scenario = "Accumulation" -> Dec(15, 1)
      [] scenario = "Cascading Pump" -> Fx(2)
      [] scenario = "Market Cycle" -> Fx(2)
      [] OTHER -> Fx(1)

\* lines 390-391
scenarioMultiplierOf(scenario) ==
    IF scenario \in {"Exponential Pump", "Parabolic"} THEN Fx(2)
    ELSE IF scenario \in {"Volatile Growth", "Market Cycle"} THEN Dec(5, 1)
    ELSE Fx(1)

\* lines 38-50, 134-139, 233-260, 389-415: the quantities the rules read,
\* under the names the function gives them
recommendationMetrics(params, currentPnL, effectiveMargin, selectedScenario, fundingImpact) ==
    LET positionSize == FMul(params.initialInvestment, params.leverage)
        isLong == params.targetPrice > params.currentPrice
        liquidationDetails ==
            calculateLiquidationDetails(params.currentPrice, params.leverage,
                                        positionSize, isLong)
        priceMove == FMul(FDiv(params.targetPrice - params.currentPrice,
                               params.currentPrice), Fx(100))
        dailyFundingCost ==
            FDiv(FMul(FMul(positionSize, params.fundingRate), Fx(3)), Fx(100))
        totalFundingCost == dailyFundingCost * params.timeHorizon
        characteristics == scenarioCharacteristics(selectedScenario)
        timeToExpectedPeak == Max(0, characteristics.peakDay - params.timeHorizon)
    IN  [positionSize |-> positionSize,
         isLong |-> isLong,
         priceMove |-> priceMove,
         dailyFundingCost |-> dailyFundingCost,
         marginUtilization |->
            FMul(FDiv(effectiveMargin, params.initialInvestment), Fx(100)),
         fundingImpact |-> fundingImpact,
         fundingToMarginRatio |->
            FDiv(fundingImpact.calculations.fundingPerPeriod, params.initialInvestment),
         totalFundingCost |-> totalFundingCost,
         marginToLiquidation |->
            effectiveMargin - liquidationDetails.maintenanceMarginRequired,
         currentPnLWithFunding |-> currentPnL - totalFundingCost,
         \* targetPriceMove is priceMove computed again
         expectedPnL |-> FDiv(FMul(priceMove, positionSize), Fx(100)),
         fundingRisk |-> characteristics.fundingRisk,
         pnlMult |-> characteristics.pnlMult,
         timeBasedPnLMultiplier |-> IF timeToExpectedPeak > 0 THEN Dec(7, 1) ELSE Fx(1),
         leverageRisk |-> FMul(FDiv(dailyFundingCost, params.initialInvestment), Fx(100)),
         liquidationDistance |->
            FMul(FDiv(liquidationDetails.liquidationPrice - params.currentPrice,
                      params.currentPrice), Fx(100))]

\* lines 63-99: the liquidation warning, else the funding-impact warning
fundingWarning(recommendations, m) ==
    IF m.fundingImpact.isLiquidated /\ m.fundingImpact.liquidationPeriod # Undefined
    THEN UnshiftIf(TRUE, recommendations,
             Rec(1, "critical", "Warning: Funding Fees Will Cause Liquidation", "high"))
    ELSE PushIf(m.fundingImpact.liquidationRisk > Fx(50), recommendations,
             Rec(2, "risk", "High Funding Impact on Margin",
                 IF m.fundingImpact.liquidationRisk > Fx(75) THEN "high" ELSE "medium"))

\* line 119
breakevenMoveOf(cost, positionSize) == FMul(FDiv(cost, positionSize), Fx(100))

\* lines 101-131
scenarioFundingWarning(recommendations, m, selectedScenario) ==
    CASE selectedScenario = "Sideways" ->
            PushIf(m.fundingToMarginRatio > Dec(1, 2), recommendations,
                   Rec(3, "risk", "High Funding Cost in Sideways Market",
                       IF m.fundingToMarginRatio > Dec(2, 2) THEN "high" ELSE "medium"))
      [] selectedScenario \in {"Exponential Pump", "Parabolic"} ->
            PushIf(breakevenMoveOf(m.fundingImpact.calculations.totalFundingFees,
                                   m.positionSize) > Fx(5),
                   recommendations,
                   Rec(4, "position", "High Funding Cost in Bull Scenario",
                       IF breakevenMoveOf(m.fundingImpact.calculations.totalFundingFees,
                                          m.positionSize) > Fx(10)
                       THEN "medium" ELSE "low"))
      [] OTHER -> recommendations

\* lines 158-173; daysToLiquidation < timeHorizon is
\* marginToLiquidation / dailyFundingCost < timeHorizon
marginDepletionWarning(recommendations, m, params, adjustedMarginDepletion) ==
    PushIf(adjustedMarginDepletion > Fx(15), recommendations,
           Rec(5, "timing", "Significant Funding Impact on Margin",
               IF QuotLt(m.marginToLiquidation, m.dailyFundingCost, Fx(params.timeHorizon))
               THEN "high"
               ELSE IF adjustedMarginDepletion > Fx(30) THEN "medium" ELSE "low"))

\* lines 175-229
scenarioHorizonWarning(recommendations, m, params, effectiveMargin, selectedScenario, adjustedFundingCost) ==
    CASE selectedScenario = "Sideways" ->
            PushIf(m.marginUtilization > Fx(10), recommendations,
                   Rec(6, "risk", "Funding Erosion in Sideways Market",
                       IF m.marginUtilization > Fx(20) THEN "high" ELSE "medium"))
      [] selectedScenario \in {"Exponential Pump", "Parabolic"} ->
            PushIf(breakevenMoveOf(adjustedFundingCost, m.positionSize) > Fx(5),
                   recommendations,
                   Rec(7, "position", "High Funding Cost in Bull Scenario",
                       IF breakevenMoveOf(adjustedFundingCost, m.positionSize) > Fx(10)
                       THEN "medium" ELSE "low"))
      [] selectedScenario = "Volatile Growth" ->
            PushIf(FDiv(FMul(adjustedFundingCost, Dec(15, 1)), effectiveMargin) > Dec(25, 2),
                   recommendations,
                   Rec(8, "risk", "Funding Risk in Volatile Market", "medium"))
      [] selectedScenario = "Market Cycle" ->
            PushIf(FDiv(Fx(params.timeHorizon), Fx(100)) > Dec(5, 1), recommendations,
                   Rec(9, "timing", "Funding Across Market Cycles",
                       IF FDiv(Fx(params.timeHorizon), Fx(100)) > Fx(1)
                       THEN "medium" ELSE "low"))
      [] OTHER -> recommendations

\* lines 155-229, adjustedFundingCost being the value of line 155
horizonWarningsFor(recommendations, m, params, effectiveMargin, selectedScenario, adjustedFundingCost) ==
    scenarioHorizonWarning(
        marginDepletionWarning(recommendations, m, params,
            FMul(FDiv(adjustedFundingCost, effectiveMargin), Fx(100))),
        m, params, effectiveMargin, selectedScenario, adjustedFundingCost)

\* lines 141-230
horizonWarnings(recommendations, m, params, effectiveMargin, selectedScenario) ==
    IF params.timeHorizon > 7
    THEN horizonWarningsFor(recommendations, m, params, effectiveMargin, selectedScenario,
             Min(FMul(m.totalFundingCost, fundingMultiplierOf(selectedScenario)),
                 m.marginToLiquidation))
    ELSE recommendations

\* lines 254-279, scenarioAdjustedPnL being the value of line 254
fundingCostWarningFor(recommendations, m, scenarioAdjustedPnL) ==
    UnshiftIf(/\ QuotGt(m.totalFundingCost, Abs(scenarioAdjustedPnL), Dec(5, 1))
              /\ m.fundingRisk # "low"
              /\ m.currentPnLWithFunding < 0,
              recommendations,
              Rec(10, "critical", "Warning: High Funding Cost Impact",
                  IF QuotGt(m.totalFundingCost, Abs(scenarioAdjustedPnL), Dec(8, 1))
                  THEN "high" ELSE "medium"))

\* lines 232-279
fundingCostWarning(recommendations, m) ==
    fundingCostWarningFor(recommendations, m,
        FMul(FMul(m.expectedPnL, m.pnlMult), m.timeBasedPnLMultiplier))

\* lines 281-385
scenarioRecommendations(recommendations, m, params, selectedScenario) ==
    CASE selectedScenario = "Exponential Pump" ->
            PushIf(params.leverage < Fx(2) /\ m.isLong,
                   PushIf(params.timeHorizon < 30 /\ m.isLong, recommendations,
                          Rec(11, "timing", "Short Timeframe in Pump Scenario", "medium")),
                   Rec(12, "opportunity", "Conservative Leverage in Bullish Scenario", "low"))
      [] selectedScenario = "Volatile Growth" ->
            PushIf(params.leverage > Fx(5), recommendations,
                   Rec(13, "risk", "High Leverage in Volatile Market", "high"))
      [] selectedScenario = "Sideways" ->
            PushIf(params.timeHorizon > 14 /\ params.leverage > Fx(3),
                   PushIf(Abs(m.priceMove) > Fx(20), recommendations,
                          Rec(14, "target", "Ambitious Target in Sideways Market", "medium")),
                   Rec(15, "timing", "Extended Sideways Exposure", "medium"))
      [] selectedScenario = "Parabolic" ->
            PushIf(m.isLong /\ params.timeHorizon < 60, recommendations,
                   Rec(16, "timing", "Short Timeframe for Parabolic Growth", "medium"))
      [] selectedScenario = "Accumulation" ->
            PushIf(params.timeHorizon < 50 /\ m.isLong, recommendations,
                   Rec(17, "timing", "Early Exit in Accumulation Phase", "medium"))
      [] selectedScenario = "Cascading Pump" ->
            PushIf(params.timeHorizon % 20 < 10, recommendations,
                   Rec(18, "timing", "Wave Cycle Timing", "low"))
      [] selectedScenario = "Market Cycle" ->
            PushIf(params.timeHorizon > 100, recommendations,
                   Rec(19, "timing", "Multiple Cycle Exposure", "medium"))
      [] OTHER -> recommendations

\* lines 387-402
leverageAnalysis(recommendations, m, params, selectedScenario) ==
    PushIf(/\ params.leverage > Fx(1)
           /\ m.leverageRisk > FDiv(Dec(5, 1), scenarioMultiplierOf(selectedScenario)),
           recommendations,
           Rec(20, "position", "Projected Funding Cost Analysis",
               IF m.leverageRisk > FDiv(Fx(1), scenarioMultiplierOf(selectedScenario))
               THEN "high" ELSE "medium"))

\* lines 404-425
liquidationRiskAnalysis(recommendations, m, selectedScenario) ==
    PushIf(Abs(m.liquidationDistance) < FMul(Fx(15), scenarioVolatilityOf(selectedScenario)),
           recommendations,
           Rec(21, "risk", "Scenario-Based Liquidation Risk",
               IF Abs(m.liquidationDistance) < FMul(Fx(10), scenarioVolatilityOf(selectedScenario))
               THEN "high" ELSE "medium"))

\* lines 429-447: both calls are given the same object
spotRecommendationsFor(sp) ==
    getSpotComparisonRecommendations(calculateSpotComparison(sp), sp)

\* the test of line 428 dropped
comparesSpot_always(fundingImpact) == TRUE

\* line 428: the spot comparison is made for a position funding leaves open
comparesSpot(fundingImpact) == ~fundingImpact.isLiquidated

\* lines 427-448
spotComparisonRecommendations(recommendations, m, params, selectedScenario) ==
    IF comparesSpot(m.fundingImpact)
    THEN recommendations \o
         spotRecommendationsFor(
             [initialInvestment |-> params.initialInvestment,
              currentPrice |-> params.currentPrice,
              targetPrice |-> params.targetPrice,
              leverage |-> params.leverage,
              fundingFees |-> m.fundingImpact.fundingFees,
              timeHorizon |-> params.timeHorizon,
              selectedScenario |-> selectedScenario])
    ELSE recommendations

\* lines 35-450: the rules in the order the function evaluates them
recommendationRules(params, effectiveMargin, selectedScenario, m) ==
    spotComparisonRecommendations(
      liquidationRiskAnalysis(
        leverageAnalysis(
          scenarioRecommendations(
            fundingCostWarning(
              horizonWarnings(
                scenarioFundingWarning(
                  fundingWarning(<<>>, m),
                  m, selectedScenario),
                m, params, effectiveMargin, selectedScenario),
              m),
            m, params, selectedScenario),
          m, params, selectedScenario),
        m, selectedScenario),
      m, params, selectedScenario)

\* lines 28-451, call being what the funding call of lines 53-61 gave;
\* `calls` names the functions of utils the invocation has called
recommendationsFrom(params, currentPnL, effectiveMargin, selectedScenario, call) ==
    [recommendations |->
        recommendationRules(params, effectiveMargin, selectedScenario,
            recommendationMetrics(params, currentPnL, effectiveMargin,
                                  selectedScenario, call.ret)),
     calls |-> {"calculateFundingImpact"}
                 \cup (IF comparesSpot(call.ret)
                       THEN {"calculateSpotComparison", "getSpotComparisonRecommendations"}
                       ELSE {}),
     cache |-> call.cache]

\* lines 28-451.  The value is the returned list and the cache after the
\* funding call of line 53.  The parameter liquidationRisk is not read.
getRecommendations(params, currentPnL, liquidationRisk, effectiveMargin, selectedScenario, cache) ==
    recommendationsFrom(params, currentPnL, effectiveMargin, selectedScenario,
        calculateFundingImpact(
            [positionSize |-> FMul(params.initialInvestment, params.leverage),
             fundingRate |-> params.fundingRate,
             periods |-> params.timeHorizon * 3,
             leverage |-> params.leverage,
             initialMargin |-> params.initialInvestment,
             currentPrice |-> params.currentPrice,
             isLong |-> params.targetPrice > params.currentPrice],
            cache))

-----------------------------------------------------------------------------
(* Inputs of the recommendations *)

RecHorizon == 8

\* what the page passes besides the form's parameters
RecRun(p, currentPnL, effectiveMargin, selectedScenario) ==
    [params |-> p, currentPnL |-> currentPnL, liquidationRisk |-> Fx(50),
     effectiveMargin |-> effectiveMargin, selectedScenario |-> selectedScenario]

\* every scenario at 2x and at 50x over a short and a longer horizon, and a
\* grid of Linear positions of one day
RecRuns ==
    {RecRun(ChartParam(l, Fx(110), h, Fx(1)), Fx(-10), Fx(50), sc) :
        l \in {Fx(2), Fx(50)}, h \in {2, RecHorizon}, sc \in TradingScenarios}
    \cup {RecRun(ChartParam(l, t, 1, r), pnl, InitialMargin, "Linear") :
            l \in {Fx(1), Fx(2), Fx(5)}, t \in {Fx(90), Fx(100), Fx(110)},
            r \in FundingRates, pnl \in {Fx(-10), Fx(10)}}

Recommend ==
    \E run \in RecRuns :
        \E r \in {getRecommendations(run.params, run.currentPnL, run.liquidationRisk,
                                     run.effectiveMargin, run.selectedScenario,
                                     liquidationCache)} :
            /\ liquidationCache' = r.cache
            /\ op' = [name |-> "getRecommendations", args |-> run, known |-> Undefined,
                      calls |-> r.calls]
            /\ ret' = r.recommendations

NextRec == Recommend \/ ClearCache

SpecRec == Init /\ [][NextRec]_vars

-----------------------------------------------------------------------------
(* Direct calls of the price modifiers of the two scenario tables *)

MaxDay == 16

\* base daily returns (fractions of the price per day)
BaseReturns == {-Dec(1, 2), 0, Dec(125, 4), Dec(5, 2)}

\* the scenarios whose price modifiers are compared
PumpScenarios == {"Linear", "Exponential Pump"}

\* scenario.priceModifier(day, baseDailyReturnPerc), ProfitLossChart.tsx line 138
CallPriceModifier ==
    \E scenario \in PumpScenarios, day \in 0..MaxDay, baseReturn \in BaseReturns :
        /\ op' = [name |-> "priceModifier",
                  args |-> [scenario |-> scenario, day |-> day, baseReturn |-> baseReturn],
                  known |-> Undefined]
        /\ ret' = priceModifier(scenario, day, baseReturn)
        /\ UNCHANGED liquidationCache

\* scenario.priceModifier(params.timeHorizon, baseDailyReturnPerc),
\* spotCompareUtils.ts line 106
CallSpotPriceModifier ==
    \E scenario \in PumpScenarios, day \in 0..MaxDay, baseReturn \in BaseReturns :
        /\ op' = [name |-> "spotPriceModifier",
                  args |-> [scenario |-> scenario, day |-> day, baseReturn |-> baseReturn],
                  known |-> Undefined]
        /\ ret' = spotPriceModifier(scenario, day, baseReturn)
        /\ UNCHANGED liquidationCache

NextScenario == CallPriceModifier \/ CallSpotPriceModifier

SpecScenario == Init /\ [][NextScenario]_vars

-----------------------------------------------------------------------------
(* binanceApi.ts: fetchFundingRate *)

\* a string is modelled as the sequence of its characters
DigitChars == <<"0", "1", "2", "3", "4", "5", "6", "7", "8", "9">>

IsDigit(c) == \E i \in 1..10 : DigitChars[i] = c

DigitValue(c) == (CHOOSE i \in 1..10 : DigitChars[i] = c) - 1

\* the text without its leading blanks
RECURSIVE TrimStart(_)
TrimStart(text) ==
    IF text # <<>> /\ Head(text) = " " THEN TrimStart(Tail(text)) ELSE text

\* the number of digits at the start of the text
RECURSIVE DigitRun(_)
DigitRun(text) ==
    IF text # <<>> /\ IsDigit(Head(text)) THEN 1 + DigitRun(Tail(text)) ELSE 0

\* the value of the first n characters as an integer numeral
RECURSIVE IntegerPart(_, _)
IntegerPart(text, n) ==
    IF n = 0 THEN 0 ELSE IntegerPart(text, n - 1) * 10 + DigitValue(text[n])

\* the value of the first n characters as the digits after a decimal point,
\* unit being the weight of the digit before them
RECURSIVE FractionPart(_, _, _)
FractionPart(text, n, unit) ==
    IF n = 0 \/ unit = 1 THEN 0
    ELSE DigitValue(Head(text)) * (unit \div 10)
         + FractionPart(Tail(text), n - 1, unit \div 10)

\* the text after a digit run of length n, past a decimal point if one follows
AfterPoint(text, n) ==
    IF Len(text) > n /\ text[n + 1] = "." THEN SubSeq(text, n + 2, Len(text)) ELSE <<>>

\* an unsigned decimal literal at the start of the text: digits, optionally
\* followed by a point and digits, or a point followed by digits
UnsignedLiteral(text) ==
    LET n == DigitRun(text)
        fraction == AfterPoint(text, n)
    IN  [isNumber |-> n > 0 \/ DigitRun(fraction) > 0,
         value |-> IntegerPart(text, n) * Scale
                   + FractionPart(fraction, DigitRun(fraction), Scale)]

\* the sign of a literal and the text after the sign
Signed(text) ==
    IF text # <<>> /\ Head(text) \in {"+", "-"}
    THEN [negative |-> Head(text) = "-", rest |-> Tail(text)]
    ELSE [negative |-> FALSE, rest |-> text]

\* parseFloat for texts without exponent part: the longest decimal literal
\* at the start of the trimmed text.  isNumber is false where parseFloat
\* gives NaN.
parseFloat(text) ==
    LET signed == Signed(TrimStart(text))
        literal == UnsignedLiteral(signed.rest)
    IN  [isNumber |-> literal.isNumber,
         value |-> IF signed.negative THEN -literal.value ELSE literal.value]

\* the bodies a response can carry: text that is not JSON, the JSON value
\* null, an object without lastFundingRate, and objects with it
LastFundingRates ==
    {<<"0", ".", "0", "0", "0", "1">>,
     <<"0", ".", "0", "0", "0", "5">>,
     <<"-", "0", ".", "0", "0", "0", "2">>,
     <<"0", ".", "0", "0", "0", "0", "0", "0", "0", "0">>,
     <<"0">>,
     <<".", "0", "1">>,
     <<" ", "0", ".", "0", "0", "3">>,
     <<"1", "2", ".", "5", "x">>,
     <<"+", "1">>,
     <<"n", "a">>,
     <<>>}

Bodies ==
    {[kind |-> "text"], [kind |-> "null"], [kind |-> "object"]}
    \cup {[kind |-> "object", lastFundingRate |-> r] : r \in LastFundingRates}

Statuses == {200, 404, 500}

Responses == {[status |-> st, body |-> b] : st \in Statuses, b \in Bodies}

\* Response.ok
Ok(response) == response.status \in 200..299

Symbols == {"BTCUSDT", "ETHUSDT", "SOLUSDT"}

Fulfilled(v) == [state |-> "fulfilled", value |-> v]

Pending == [state |-> "pending"]

\* a catch block that throws the error again
catchFetchError_rethrow(error) == [state |-> "rejected", value |-> error]

\* lines 80-83: the catch block logs the error and returns 0.01
catchFetchError(error) == Fulfilled(Dec(1, 2))

\* line 79: parseFloat(data.lastFundingRate) * 100; parseFloat(undefined)
\* is NaN and NaN * 100 is NaN
returnedRate(data) ==
    IF "lastFundingRate" \notin DOMAIN data THEN Fulfilled(NaN)
    ELSE LET parsed == parseFloat(data.lastFundingRate)
         IN  IF parsed.isNumber THEN Fulfilled(FMul(parsed.value, Fx(100)))
             ELSE Fulfilled(NaN)

IsFetching(at) == op.name = "fetchFundingRate" /\ op.pc = at

FetchCall(symbol, pc, outcome) ==
    [name |-> "fetchFundingRate", args |-> symbol, known |-> Undefined,
     pc |-> pc, outcome |-> outcome]

\* lines 69-73: the call runs to the await of fetch and returns its promise.
\* One call is followed to its end before the next is made.
StartFetch ==
    \E symbol \in Symbols :
        /\ IF op.name = "fetchFundingRate" THEN op.pc = "done" ELSE TRUE
        /\ op' = FetchCall(symbol, "awaitFetch", [kind |-> "none"])
        /\ ret' = Pending
        /\ UNCHANGED liquidationCache

\* the promise of fetch rejects (no network): control goes to the catch block
FetchRejects ==
    /\ IsFetching("awaitFetch")
    /\ op' = FetchCall(op.args, "done", [kind |-> "network error"])
    /\ ret' = catchFetchError("TypeError: Failed to fetch")
    /\ UNCHANGED liquidationCache

\* lines 74-77: the promise of fetch resolves with a response; a response
\* that is not ok is thrown as an Error, otherwise the call awaits json()
FetchResolves ==
    \E response \in Responses :
        /\ IsFetching("awaitFetch")
        /\ UNCHANGED liquidationCache
        /\ IF ~Ok(response)
           THEN /\ op' = FetchCall(op.args, "done", [kind |-> "response", response |-> response])
                /\ ret' = catchFetchError("Error: Failed to fetch funding rate")
           ELSE /\ op' = FetchCall(op.args, "awaitJson", [kind |-> "response", response |-> response])
                /\ ret' = Pending

\* the promise of response.json() rejects: the body is not JSON
JsonRejects ==
    /\ IsFetching("awaitJson")
    /\ op.outcome.response.body.kind = "text"
    /\ op' = FetchCall(op.args, "done", op.outcome)
    /\ ret' = catchFetchError("SyntaxError")
    /\ UNCHANGED liquidationCache

\* lines 77-79: the promise of response.json() resolves with the parsed
\* body; reading a property of null throws a TypeError
JsonResolves ==
    /\ IsFetching("awaitJson")
    /\ op.outcome.response.body.kind # "text"
    /\ op' = FetchCall(op.args, "done", op.outcome)
    /\ ret' = IF op.outcome.response.body.kind = "null"
              THEN catchFetchError("TypeError: Cannot read properties of null")
              ELSE returnedRate(op.outcome.response.body)
    /\ UNCHANGED liquidationCache

NextFetch ==
    StartFetch \/ FetchRejects \/ FetchResolves \/ JsonRejects \/ JsonResolves

SpecFetch == Init /\ [][NextFetch]_vars

-----------------------------------------------------------------------------
(* Claims about the funding engine, checked under Spec *)

IsCall == op.name = "calculateFundingImpact"

RateInUnitRange(a) == Fx(-1) <= a.fundingRate /\ a.fundingRate <= Fx(1)

\* the fees accrued in periods 0..i-1 and the notional of period i, by the
\* accrual rule alone (no liquidation test, no cache)
RECURSIVE Accrued(_, _)
Accrued(a, i) ==
    IF i = 0 THEN [fees |-> 0, notional |-> a.positionSize]
    ELSE LET s == Accrued(a, i - 1)
         IN  [fees |-> s.fees + FMul(s.notional, FDiv(a.fundingRate, Fx(100))),
              notional |-> FMul(a.positionSize,
                                FDiv(a.initialMargin - s.fees, a.initialMargin))]

MaintenanceOf(a) ==
    calculateLiquidationDetails(a.currentPrice, a.leverage, a.positionSize,
                                a.isLong).maintenanceMarginRequired

\* the checked period indices at which the margin is at or below maintenance
ExhaustedAt(a) ==
    {i \in 0..(a.periods - 1) : a.initialMargin - Accrued(a, i).fees <= MaintenanceOf(a)}

Least(S) == CHOOSE x \in S : \A y \in S : x <= y

\* C1: every call returns exactly what the same call returns from an empty
\* cache, whatever calls and cache resets came before it.
C1_CacheNotObservable ==
    IsCall => ret = calculateFundingImpact(op.args, EmptyCache).ret

\* a call answered from a cached liquidation period
C1_Witness ==
    /\ IsCall
    /\ Truthy(op.known)
    /\ op.args.periods > op.known
    /\ ret.isLiquidated

\* C2: a liquidated result of a call with periods >= 1 reports
\* fundingFees = initialMargin and effectiveMargin = 0.
C2_LiquidatedReportsCap ==
    (IsCall /\ op.args.periods >= 1 /\ ret.isLiquidated)
        => (ret.fundingFees = op.args.initialMargin /\ ret.effectiveMargin = 0)

\* C4: for a rate in [-1, 1] the fees of an open result are at least the fees
\* of the same call with one period less, and the fees of a liquidated result
\* equal initialMargin.
C4_FeesMonotoneThenCapped ==
    (IsCall /\ RateInUnitRange(op.args))
        => /\ ret.isLiquidated => ret.fundingFees = op.args.initialMargin
           /\ (~ret.isLiquidated /\ op.args.periods >= 1)
                => ret.fundingFees >=
                     calculateFundingImpact([op.args EXCEPT !.periods = @ - 1],
                                            liquidationCache).ret.fundingFees

\* C5: the result is liquidated exactly when some checked period finds the
\* margin less the accrued fees at or below maintenance; liquidationPeriod is
\* the least such period and is undefined when there is none.
C5_LiquidationPeriodIsFirst ==
    IsCall =>
        LET E == ExhaustedAt(op.args)
        IN  /\ ret.isLiquidated <=> E # {}
            /\ E # {} => ret.liquidationPeriod = Least(E)
            /\ E = {} => ret.liquidationPeriod = Undefined

C5_Witness ==
    /\ IsCall
    /\ ret.isLiquidated
    /\ ret.liquidationPeriod = 2
    /\ op.args.periods > 3

\* C6: for the six leverages and a rate in [-1, 1] the risk score lies in
\* [0, 100] and is 100 when the result is liquidated.
C6_RiskClamped ==
    (IsCall /\ op.args.leverage \in Leverages /\ RateInUnitRange(op.args))
        => /\ 0 <= ret.liquidationRisk
           /\ ret.liquidationRisk <= Fx(100)
           /\ ret.isLiquidated => ret.liquidationRisk = Fx(100)

\* a negative rate has raised the margin so far that the raw score is below 0
C6_Witness ==
    /\ IsCall
    /\ op.args.fundingRate = Fx(-1)
    /\ op.args.leverage = Fx(50)
    /\ op.args.periods >= 3
    /\ ret.liquidationRisk = 0

\* C7: at 1x the maintenance margin is 0, the result is liquidated exactly
\* when a checked period finds the margin less the accrued fees at or below 0,
\* and an open result's risk is the clamped share of margin consumed.
C7_OneXOnlyByExhaustion ==
    (IsCall /\ op.args.leverage = Fx(1))
        => /\ ret.calculations.maintenanceMargin = 0
           /\ ret.isLiquidated <=>
                \E i \in 0..(op.args.periods - 1) :
                    op.args.initialMargin - Accrued(op.args, i).fees <= 0
           /\ ret.liquidationRisk <= Fx(100)
           /\ ~ret.isLiquidated =>
                ret.liquidationRisk =
                    Max(0, Min(Fx(100),
                        FMul(FDiv(op.args.initialMargin - ret.effectiveMargin,
                                  op.args.initialMargin), Fx(100))))

\* a 1x position whose margin funding has used up
C7_Witness ==
    /\ IsCall
    /\ op.args.leverage = Fx(1)
    /\ ret.isLiquidated
    /\ ret.liquidationPeriod >= 1

-----------------------------------------------------------------------------
(* Claims about the projected series, checked under SpecChart *)

IsChart == op.name = "ProfitLossChart"

\* the allowance for values rounded to two decimals
Cent == Fx(1) \div 100

\* C3: in a projected series a liquidated day is followed only by days in the
\* liquidation state (isLiquidated, totalPnL = -initialInvestment).
C3_LiquidationAbsorbing ==
    IsChart =>
        \A i \in 1..Len(ret.points) : \A j \in 1..Len(ret.points) :
            (i < j /\ ret.points[i].isLiquidated)
                => /\ ret.points[j].isLiquidated
                   /\ ret.points[j].totalPnL = -op.args.params.initialInvestment

\* C8: on every open day totalPnL is rawPnL - |fundingFees| (to the rounding
\* of the emitted values), rawPnL being positionSize * priceChangePercent; for
\* Linear on the last day that is
\* positionSize * (targetPrice - currentPrice) / currentPrice - fundingFees.
C8_TotalIsRawLessFunding ==
    IsChart =>
        \A i \in 1..Len(ret.points) :
            LET d == ret.points[i]
                p == op.args.params
                in == dayInputs(p, op.args.scenario, d.day)
                closed == FMul(in.positionSize,
                               FDiv(p.targetPrice - p.currentPrice, p.currentPrice))
            IN  ~d.isLiquidated
                    => /\ Abs(d.rawPnL - in.rawPnL) <= Cent
                       /\ Abs(d.totalPnL - (d.rawPnL - Abs(d.fundingFees))) <= 2 * Cent
                       /\ (op.args.scenario = "Linear" /\ d.day = p.timeHorizon)
                            => Abs(d.totalPnL - (closed - d.fundingFees)) <= 2 * Cent

\* C9: a day whose funding simulation over 3 * day periods reports liquidation
\* with day >= floor(liquidationPeriod / 3) is emitted as the liquidation
\* state: rawPnL = -initialInvestment, fundingFees = initialInvestment,
\* totalPnL = -initialInvestment, pnlPercent = -100, liquidationRisk = 100,
\* effectiveMargin = 0, isLiquidated.
C9_TerminalPoint ==
    IsChart =>
        \A i \in 1..Len(ret.points) :
            LET d == ret.points[i]
                p == op.args.params
                sim == calculateFundingImpact(
                           dayInputs(p, op.args.scenario, i - 1).call, EmptyCache).ret
            IN  (/\ sim.isLiquidated
                 /\ i - 1 >= sim.liquidationPeriod \div 3)
                    => /\ d.day = i - 1
                       /\ d.rawPnL = -p.initialInvestment
                       /\ d.fundingFees = p.initialInvestment
                       /\ d.totalPnL = -p.initialInvestment
                       /\ d.pnlPercent = Fx(-100)
                       /\ d.liquidationRisk = Fx(100)
                       /\ d.effectiveMargin = 0
                       /\ d.isLiquidated

\* a series whose last day is emitted in the liquidation state
C9_Witness ==
    /\ IsChart
    /\ op.args.params.leverage = Fx(50)
    /\ ret.points[Len(ret.points)].isLiquidated
    /\ ret.points[Len(ret.points)].rawPnL = -op.args.params.initialInvestment

\* the fields of a ProjectionPoint
PointFields ==
    {"day", "rawPnL", "fundingFees", "fundingRate", "totalPnL", "price",
     "pnlPercent", "liquidationRisk", "effectiveMargin", "isLiquidated",
     "marginWarning"}

\* C11: every emitted point, the liquidation state included, has all fields
\* of a point, and its marginWarning is "danger" when its liquidationRisk is
\* above 80, "warning" when it is above 60 and at most 80, "safe" otherwise.
C11_EveryPointHasItsTier ==
    IsChart =>
        \A i \in 1..Len(ret.points) :
            LET d == ret.points[i]
            IN  /\ DOMAIN d = PointFields
                /\ d.marginWarning =
                      (IF d.liquidationRisk > Fx(80) THEN "danger"
                       ELSE IF d.liquidationRisk > Fx(60) THEN "warning"
                       ELSE "safe")

\* the days of a series are strictly ascending
Ascending(series) ==
    \A i \in 1..Len(series) : \A j \in 1..Len(series) :
        i < j => series[i].day < series[j].day

\* C12: for timeHorizon >= 1 the returned series is strictly ascending in
\* day, starts with day 0 and ends with day timeHorizon.
C12_SeriesAscendingToHorizon ==
    (IsChart /\ op.args.params.timeHorizon >= 1)
        => /\ Len(ret.data) >= 2
           /\ Ascending(ret.data)
           /\ ret.data[1].day = 0
           /\ ret.data[Len(ret.data)].day = op.args.params.timeHorizon

\* a series of which the filter has dropped days
C12_Witness ==
    /\ IsChart
    /\ op.args.params.timeHorizon >= 20
    /\ Len(ret.data) < Len(ret.points)
    /\ ret.data[Len(ret.data)].day = op.args.params.timeHorizon

-----------------------------------------------------------------------------
(* Claims about the recommendations, checked under SpecRec *)

IsRecommend == op.name = "getRecommendations"

LiquidationWarning == "Warning: Funding Fees Will Cause Liquidation"

\* C10: when the returned list holds the funding-liquidation warning, the
\* warning is the first element, and the elements after it stand in the order
\* in which their rules are evaluated.
C10_LiquidationWarningFirst ==
    (/\ IsRecommend
     /\ \E i \in 1..Len(ret) : ret[i].title = LiquidationWarning)
        => /\ ret[1].title = LiquidationWarning
           /\ \A i \in 2..Len(ret) : \A j \in 2..Len(ret) :
                i < j => ret[i].rule < ret[j].rule

-----------------------------------------------------------------------------
(* Claims about the spot comparison, checked under SpecSpot *)

IsSpot == op.name = "calculateSpotComparison"

\* x is a number and none of NaN, Infinity, -Infinity
IsNumber(x) == ToString(x) \notin {ToString(NaN), ToString(Infinity), ToString(NegInfinity)}

\* C13: no ratio of the result is NaN or infinite, whatever leveragedPnL and
\* spotPnL are: leverageMultiplier, spotSharpe and leverageSharpe are numbers.
C13_NoNaNInResult ==
    IsSpot => /\ IsNumber(ret.leverageMultiplier)
              /\ IsNumber(ret.spotSharpe)
              /\ IsNumber(ret.leverageSharpe)

\* C14: the reported marginBuffer is
\* (initialInvestment - fundingFees - maintenanceMarginRequired)
\*     / initialInvestment * 100,
\* maintenanceMarginRequired being the liquidation model's value for the
\* position: half of initialInvestment above 1x, 0 at 1x.
C14_BufferAboveMaintenance ==
    IsSpot =>
        LET sp == op.args
            details == calculateLiquidationDetails(sp.currentPrice, sp.leverage,
                           FMul(sp.initialInvestment, sp.leverage), TRUE)
        IN  ret.marginBuffer =
                FMul(FDiv(sp.initialInvestment - sp.fundingFees
                              - details.maintenanceMarginRequired,
                          sp.initialInvestment), Fx(100))

-----------------------------------------------------------------------------
(* Claims about the liquidation model, checked under SpecLiquidation *)

IsWouldBeLiquidated == op.name = "wouldBeLiquidated"

IsLiquidationDetails == op.name = "calculateLiquidationDetails"

\* C17: at leverage 1 wouldBeLiquidated is false for every positive entry
\* price and every positive current price, long or short.
C17_OneXNeverByPrice ==
    (/\ IsWouldBeLiquidated
     /\ op.args.leverage = Fx(1)
     /\ op.args.entryPrice > 0
     /\ op.args.currentPrice > 0)
        => ret = FALSE

\* C18: a long is reported liquidated exactly when
\* currentPrice <= entryPrice * (1 - 1 / leverage), a short exactly when
\* currentPrice >= entryPrice * (1 + 1 / leverage).
C18_InclusiveThreshold ==
    IsWouldBeLiquidated =>
        LET a == op.args
            share == FDiv(Fx(1), a.leverage)
        IN  ret = (IF a.isLong
                   THEN a.currentPrice <= FMul(a.entryPrice, Fx(1) - share)
                   ELSE a.currentPrice >= FMul(a.entryPrice, Fx(1) + share))

\* a long whose price is exactly its liquidation price
C18_Witness ==
    /\ IsWouldBeLiquidated
    /\ op.args.isLong
    /\ op.args.leverage > Fx(1)
    /\ op.args.currentPrice =
         FMul(op.args.entryPrice, Fx(1) - FDiv(Fx(1), op.args.leverage))
    /\ ret = TRUE

\* C19: for currentPrice > 0 and leverage > 0 the liquidation price of a long
\* is below currentPrice, that of a short above it, both by
\* currentPrice / leverage.
C19_LiquidationPriceSide ==
    (/\ IsLiquidationDetails
     /\ op.args.currentPrice > 0
     /\ op.args.leverage > 0)
        => LET a == op.args
               distance == FDiv(a.currentPrice, a.leverage)
           IN  IF a.isLong
               THEN /\ ret.liquidationPrice < a.currentPrice
                    /\ a.currentPrice - ret.liquidationPrice = distance
               ELSE /\ ret.liquidationPrice > a.currentPrice
                    /\ ret.liquidationPrice - a.currentPrice = distance

\* a short position, whose liquidation price lies above the price
C19_Witness ==
    /\ IsLiquidationDetails
    /\ ~op.args.isLong
    /\ ret.liquidationPrice = op.args.currentPrice + FDiv(op.args.currentPrice, op.args.leverage)
    /\ ret.liquidationPrice > op.args.currentPrice

-----------------------------------------------------------------------------
(* Claims about fetchFundingRate, checked under SpecFetch *)

IsFetch == op.name = "fetchFundingRate"

\* the request has failed: no response, a response that is not ok, or a body
\* that is not JSON
RequestFailed ==
    \/ op.outcome.kind = "network error"
    \/ /\ op.outcome.kind = "response"
       /\ \/ ~Ok(op.outcome.response)
          \/ op.outcome.response.body.kind = "text"

\* C20: the promise of fetchFundingRate is never rejected, and a call whose
\* request has failed ends with the promise fulfilled with 0.01, not 0.
C20_FailedFetchGivesDefault ==
    IsFetch =>
        /\ ret.state # "rejected"
        /\ op.pc = "done" => ret.state = "fulfilled"
        /\ (op.pc = "done" /\ RequestFailed)
              => /\ ret.value = Scale \div 100
                 /\ ret.value # 0

\* an ok response whose body is not JSON
C20_Witness ==
    /\ IsFetch
    /\ op.pc = "done"
    /\ op.outcome.kind = "response"
    /\ Ok(op.outcome.response)
    /\ op.outcome.response.body.kind = "text"
    /\ ret = Fulfilled(Scale \div 100)

-----------------------------------------------------------------------------
(* Further claims about the projected series, checked under SpecChart and
   SpecPosition *)

\* C21: for Linear with targetPrice = currentPrice every open day has
\* rawPnL = 0 and totalPnL = -fundingFees.
C21_FlatPriceOnlyFunding ==
    (/\ IsChart
     /\ op.args.scenario = "Linear"
     /\ op.args.params.targetPrice = op.args.params.currentPrice)
        => \A i \in 1..Len(ret.points) :
               ~ret.points[i].isLiquidated
                   => /\ ret.points[i].rawPnL = 0
                      /\ ret.points[i].totalPnL = -ret.points[i].fundingFees

\* a flat-price series with an open day on which funding has been received
C21_Witness ==
    /\ IsChart
    /\ op.args.scenario = "Linear"
    /\ op.args.params.targetPrice = op.args.params.currentPrice
    /\ \E i \in 1..Len(ret.points) :
           /\ ~ret.points[i].isLiquidated
           /\ ret.points[i].fundingFees < 0
           /\ ret.points[i].totalPnL > 0

\* the days of a series that are emitted in the liquidation state
LiquidatedDays(points) == {points[i].day : i \in {j \in 1..Len(points) : points[j].isLiquidated}}

\* C23: the series of the 100x position (margin 1000, 100 -> 110 over 30
\* days, rate 0.01, Linear) has a liquidated day before day 30, and its first
\* liquidated day is the one a computation from an empty cache gives,
\* whatever the cache held when the series was computed.
C23_ConcreteLiquidationDay ==
    (IsChart /\ op.args = ConcreteRun)
        => /\ LiquidatedDays(ret.points) # {}
           /\ Least(LiquidatedDays(ret.points)) < 30
           /\ Least(LiquidatedDays(ret.points)) =
                 Least(LiquidatedDays(
                     projection(ConcreteParams, "Linear", EmptyCache).points))

\* the series recomputed while the cache holds the liquidation periods an
\* earlier computation of it stored
C23_Witness ==
    /\ IsChart
    /\ op.args = ConcreteRun
    /\ op.known
    /\ Least(LiquidatedDays(ret.points)) = 24

\* C26: for timeHorizon >= 1 the displayed series has at most 11 points.
C26_AtMostElevenPoints ==
    (IsChart /\ op.args.params.timeHorizon >= 1) => Len(ret.data) <= 11

\* what the funding call of day `day` of the rendered position returns when
\* the cache is `cache`
daySimulation(day, cache) ==
    calculateFundingImpact(
        dayInputs(op.args.params, op.args.scenario, day).call, cache).ret

\* a liquidated simulation of the day has its liquidation period below the
\* day's 3 * day periods, and the day's point is the liquidation state
LiquidatedBeforeDay(day, sim) ==
    sim.isLiquidated
        => /\ sim.liquidationPeriod # Undefined
           /\ sim.liquidationPeriod < 3 * day
           /\ day >= sim.liquidationPeriod \div 3
           /\ ret.points[day + 1].isLiquidated

\* C28: a funding call over 3 * d periods that returns isLiquidated, from
\* the loop or from a cached period, has liquidationPeriod < 3 * d, so that
\* d >= floor(liquidationPeriod / 3) and the point of day d is the
\* liquidation state; the point of day 0 is never liquidated.
C28_LiquidatedDayIsTerminal ==
    IsChart =>
        /\ ~ret.points[1].isLiquidated
        /\ \A i \in 1..Len(ret.points) :
              /\ LiquidatedBeforeDay(i - 1, daySimulation(i - 1, EmptyCache))
              /\ LiquidatedBeforeDay(i - 1, daySimulation(i - 1, liquidationCache))

\* a day whose simulation is liquidated through the cached period, which
\* lies before the day's periods
C28_Witness ==
    /\ IsChart
    /\ \E i \in 2..Len(ret.points) :
           /\ cacheGet(liquidationCache,
                       cacheKey(dayInputs(op.args.params, op.args.scenario, i - 1).call)) = 1
           /\ daySimulation(i - 1, liquidationCache).isLiquidated
           /\ daySimulation(i - 1, liquidationCache).liquidationPeriod = 1
           /\ ret.points[i].isLiquidated

\* the funding simulation of the position at its entry price over the whole
\* horizon, from an empty cache
horizonSimulation ==
    calculateFundingImpact(
        [dayInputs(op.args.params, op.args.scenario, 0).call
            EXCEPT !.periods = 3 * op.args.params.timeHorizon],
        EmptyCache).ret

\* the first liquidated day: the least d with 3 * d > liquidationPeriod;
\* beyond the horizon when the position stays open
firstLiquidatedDay ==
    IF horizonSimulation.isLiquidated
    THEN horizonSimulation.liquidationPeriod \div 3 + 1
    ELSE op.args.params.timeHorizon + 1

\* C29: in a Linear series every day before the first liquidated day d0 is
\* open and every day from d0 to timeHorizon is the liquidation state, d0
\* being the least d with 3 * d > liquidationPeriod, whatever the prices of
\* the days.
C29_LinearLiquidationAbsorbing ==
    (IsChart /\ op.args.scenario = "Linear")
        => \A i \in 1..Len(ret.points) :
               /\ ret.points[i].isLiquidated <=> i - 1 >= firstLiquidatedDay
               /\ ret.points[i].isLiquidated
                    => ret.points[i] =
                         liquidatedPoint(i - 1, op.args.params.initialInvestment,
                                         ret.points[i].price)

\* a Linear series with a rising price that is open on day 0 and in the
\* liquidation state on its last two days
C29_Witness ==
    /\ IsChart
    /\ op.args.scenario = "Linear"
    /\ op.args.params.targetPrice > op.args.params.currentPrice
    /\ firstLiquidatedDay = 1
    /\ Len(ret.points) >= 3
    /\ ~ret.points[1].isLiquidated
    /\ ret.points[Len(ret.points) - 1].isLiquidated
    /\ ret.points[Len(ret.points)].isLiquidated
    /\ ret.points[Len(ret.points)].price > ret.points[Len(ret.points) - 1].price

-----------------------------------------------------------------------------
(* Further claims about the funding engine, checked under Spec *)

\* C24: an open result of a call with periods >= 1 has
\* effectiveMargin = initialMargin - fundingFees, the fees being those of all
\* the periods, and calculations.marginBuffer = effectiveMargin less the
\* maintenance margin.
C24_MarginIsInitialLessFees ==
    (IsCall /\ ~ret.isLiquidated /\ op.args.periods >= 1)
        => /\ ret.effectiveMargin = op.args.initialMargin - ret.fundingFees
           /\ ret.calculations.marginBuffer =
                 (op.args.initialMargin - ret.fundingFees)
                     - ret.calculations.maintenanceMargin

\* the arguments a cache key stands for, over the longest simulated run
KeyArgs(key) ==
    [positionSize |-> key[1], fundingRate |-> key[2], periods |-> MaxPeriods,
     leverage |-> key[3], initialMargin |-> key[4], currentPrice |-> key[5],
     isLong |-> key[6]]

\* every entry is the first period at which the margin of its position is at
\* or below maintenance
CacheExact ==
    \A key \in DOMAIN liquidationCache :
        /\ ExhaustedAt(KeyArgs(key)) # {}
        /\ liquidationCache[key] = Least(ExhaustedAt(KeyArgs(key)))

\* a step that is not the start of a fresh module instance keeps every entry
\* as it is and adds at most the key of the call, whose result is liquidated
CacheStep ==
    liquidationCache' # EmptyCache
        => /\ \A key \in DOMAIN liquidationCache :
                 /\ key \in DOMAIN liquidationCache'
                 /\ liquidationCache'[key] = liquidationCache[key]
           /\ \A key \in DOMAIN liquidationCache' \ DOMAIN liquidationCache :
                 /\ op'.name = "calculateFundingImpact"
                 /\ key = cacheKey(op'.args)
                 /\ ret'.isLiquidated
                 /\ ret'.liquidationPeriod = liquidationCache'[key]

\* C27: after any sequence of calls every cache entry maps its key to the
\* first period at which that position's margin is at or below maintenance;
\* an entry is written only by a call whose loop detects liquidation, a call
\* writes at most its own key, and no entry is changed to another value.
C27_CacheHoldsFirstPeriods == []CacheExact /\ [][CacheStep]_vars

\* a call has found its entry in a cache of several entries and left it
C27_Witness ==
    /\ IsCall
    /\ Truthy(op.known)
    /\ Cardinality(DOMAIN liquidationCache) >= 2
    /\ liquidationCache[cacheKey(op.args)] = op.known
    /\ \E key \in DOMAIN liquidationCache : liquidationCache[key] = 2

\* a call as the callers make it at more than 1x
IsLeveragedCall ==
    /\ IsCall
    /\ op.args.leverage > Fx(1)
    /\ op.args.positionSize = FMul(op.args.initialMargin, op.args.leverage)

\* C30: for leverage > 1, positionSize = initialMargin * leverage and a rate
\* >= 0 the returned liquidationRisk is at least 50 for every number of
\* periods, and is 50 while the returned margin is the initial margin; a risk
\* below 100 is that of an open result, and a risk below 50 is that of a call
\* with a negative rate.
C30_RiskAtLeastFifty ==
    IsLeveragedCall
        => /\ op.args.fundingRate >= 0
                => /\ ret.liquidationRisk >= Fx(50)
                   /\ (~ret.isLiquidated /\ ret.effectiveMargin = op.args.initialMargin)
                        => ret.liquidationRisk = Fx(50)
           /\ ret.liquidationRisk < Fx(100) => ~ret.isLiquidated
           /\ ret.liquidationRisk < Fx(50) => op.args.fundingRate < 0

\* an open position whose margin fees have reduced: the risk lies between 50
\* and 100
C30_Witness ==
    /\ IsLeveragedCall
    /\ op.args.fundingRate > 0
    /\ op.args.periods >= 3
    /\ ~ret.isLiquidated
    /\ ret.fundingFees > 0
    /\ ret.liquidationRisk > Fx(50)
    /\ ret.liquidationRisk < Fx(100)

\* a risk below 50 is reached with a negative rate
RiskBelowFifty ==
    /\ IsLeveragedCall
    /\ op.args.fundingRate < 0
    /\ ret.liquidationRisk < Fx(50)

-----------------------------------------------------------------------------
(* Further claims about the recommendations, checked under SpecRec *)

\* the funding simulation of the invocation: timeHorizon * 3 periods
recSimulation ==
    calculateFundingImpact(
        [positionSize |-> FMul(op.args.params.initialInvestment, op.args.params.leverage),
         fundingRate |-> op.args.params.fundingRate,
         periods |-> op.args.params.timeHorizon * 3,
         leverage |-> op.args.params.leverage,
         initialMargin |-> op.args.params.initialInvestment,
         currentPrice |-> op.args.params.currentPrice,
         isLong |-> op.args.params.targetPrice > op.args.params.currentPrice],
        EmptyCache).ret

\* the positions of the list that getSpotComparisonRecommendations made
SpotItems == {i \in 1..Len(ret) : ret[i].rule >= 22}

\* C25: when the funding simulation over timeHorizon * 3 periods is open the
\* list holds the spot-comparison items, 'Projected Leverage vs Spot Returns'
\* among them, after all other items; when it is liquidated the list holds no
\* spot-comparison item and calculateSpotComparison has not been called.
C25_SpotItemsIffOpen ==
    IsRecommend =>
        IF recSimulation.isLiquidated
        THEN /\ SpotItems = {}
             /\ "calculateSpotComparison" \notin op.calls
        ELSE /\ \E i \in SpotItems : ret[i].title = "Projected Leverage vs Spot Returns"
             /\ "calculateSpotComparison" \in op.calls
             /\ \A i \in SpotItems : \A j \in 1..Len(ret) : j > i => j \in SpotItems

\* a list in which two spot-comparison items follow items of other rules
C25_Witness ==
    /\ IsRecommend
    /\ Cardinality(SpotItems) >= 2
    /\ Len(ret) > Cardinality(SpotItems)
    /\ ~recSimulation.isLiquidated

-----------------------------------------------------------------------------
(* Claims about the scenario tables, checked under SpecScenario *)

IsPriceModifier == op.name \in {"priceModifier", "spotPriceModifier"}

\* ret is the Linear modifier of the call's arguments, to the resolution at
\* which the powers are evaluated
NearLinear ==
    Abs(ret - FMul(op.args.baseReturn, Fx(op.args.day))) <= Dec(3, 4)

\* C22: in both scenario tables the Exponential Pump price modifier gives,
\* for every day from 0 on and every base return, a number, and that number
\* is the Linear modifier baseReturn * day.
C22_PumpIsLinear ==
    (IsPriceModifier /\ op.args.scenario = "Exponential Pump")
        => (IsNumber(ret) /\ NearLinear)

\* the same for the days from 1 on
PumpIsLinearFromDayOne ==
    (IsPriceModifier /\ op.args.scenario = "Exponential Pump" /\ op.args.day >= 1)
        => (IsNumber(ret) /\ NearLinear)

====
